---- MODULE Spec2Model ----
(***************************************************************************)
(* Model of the batch labelling pipeline of src/src/process_data.py:       *)
(* the per-ply move scorer of process_single_game, the worker initializer  *)
(* and the pool run of process_games_multiprocess.                         *)
(*                                                                         *)
(* Two specifications are given.  SpecGame walks one game ply by ply in    *)
(* one worker process, with the engine's replies drawn from bounded sets.  *)
(* Spec runs the pool: workers take chunks of games from the task queue,   *)
(* run process_single_game on each game and post the chunk's results; the  *)
(* parent collects them in completion order.                               *)
(*                                                                         *)
(* The serving side of src/src/api.py has its own specifications: SpecFlip *)
(* applies flip_fen_turn to bounded strings and SpecApi handles one        *)
(* request of /predict or /predict_moves.  SpecScores scores one ply of    *)
(* process_single_game with the engine's scores given as centipawn or mate *)
(* values, read by score(mate_score=10000).                                *)
(***************************************************************************)
EXTENDS Integers, Sequences, FiniteSets, TLC

\* ------------------------------------------------------------------ bounds

\* plies of the game walked by SpecGame
MaxPlies == 2
\* candidate lines the engine returns for one analyse call (the code asks
\* for multipv=5; the engine may return fewer)
MaxLines == 2
\* games loaded into games_buffer
NumGames == 3
\* worker processes of the pool (os.cpu_count() in the code)
NumWorkers == 2
\* games per task of imap_unordered (the code passes chunksize=10; scaled
\* down so that NumGames games make more than one task)
ChunkSize == 2
\* characters of the strings handed to flip_fen_turn by SpecFlip
MaxLen == 4
\* legal moves of the positions requested from the API
MaxMoves == 2

\* ------------------------------------------------- values fixed by the code

\* line 110: is_blunder = 1 if score_diff > 100
BlunderThreshold == 100
\* line 99: human_move_score = -9999 when the fallback score is unusable
FallbackSentinel == -9999

\* engine = None (line 19); an opened session is named by its owning process
NoEngine == 0

\* a move that is not the move played at the analysed ply
OtherMove == 0

\* scores the engine reports for candidate lines
CandScores == {0, 101}
\* scores the engine reports for the fallback evaluation (depth 5)
EvalScores == {0, 100}

Last(s) == s[Len(s)]

\* ------------------------------------------------------------- python-chess

\* board.turn: white moves on even stack length (game.board() is the start
\* position, push flips the turn)
Turn(b) == IF Len(b) % 2 = 0 THEN "w" ELSE "b"

\* board.fen(): the position reached by the move stack, with the side to move
Fen(b) == [stack |-> b, turn |-> Turn(b)]

\* board.push(move).  push() does not validate the move; pushing again the
\* move that was just made finds its from-square empty, which builds with
\* the library's pseudo-legality check enabled report by raising, after the
\* move stack has been extended.
Push(b, m, checked) ==
    [board  |-> Append(b, m),
     raised |-> checked /\ Len(b) > 0 /\ Last(b) = m]

\* board.pop()
Pop(b) == SubSeq(b, 1, Len(b) - 1)

\* ------------------------------------------------------ engine reply sets

\* One candidate line: its first move and its mover-relative score.
Lines(m) == [move : {m, OtherMove}, score : CandScores]

\* What engine.analyse(board, depth=DEPTH, multipv=5) can do: raise, or
\* return a list of lines in the engine's own order (possibly empty).
AnalyseReplies(m) ==
    {[ok |-> FALSE, info |-> <<>>]} \cup
    {[ok |-> TRUE, info |-> l] : l \in UNION {[1..n -> Lines(m)] : n \in 0..MaxLines}}

\* What engine.analyse(board, depth=5) can do on the fallback path: raise,
\* return an info without a usable score, or return a score.
EvalReplies ==
    {[kind |-> "raise", val |-> 0], [kind |-> "noscore", val |-> 0]} \cup
    {[kind |-> "score", val |-> v] : v \in EvalScores}

NoEval == [kind |-> "raise", val |-> 0]

\* ------------------------------------------------- analyze_position_worker

\* info[0]["score"].relative.score(mate_score=10000)
BestOfMax(info) ==
    CHOOSE s \in {info[i].score : i \in 1..Len(info)} :
        \A i \in 1..Len(info) : info[i].score <= s

BestOf(info) == info[1].score

\* analyze_position_worker(board): (best_move, score, info), or an exception
\* of engine.analyse passed on.  has = (best_move is not None).
analyze_position_worker(eng, b, an) ==
    IF eng = NoEngine
    THEN [raised |-> FALSE, has |-> FALSE, score |-> 0, info |-> <<>>, calls |-> <<>>]
    ELSE LET call == <<[kind |-> "analyse", pos |-> Fen(b), session |-> eng]>> IN
         IF ~an.ok
         THEN [raised |-> TRUE, has |-> FALSE, score |-> 0, info |-> <<>>, calls |-> call]
         ELSE IF an.info = <<>>
         THEN [raised |-> FALSE, has |-> FALSE, score |-> 0, info |-> <<>>, calls |-> call]
         ELSE [raised |-> FALSE, has |-> TRUE, score |-> BestOf(an.info),
               info |-> an.info, calls |-> call]

\* ----------------------------------------------------- process_single_game

\* lines 88-91: the first line whose first move is the played move
Matches(info, m) == {i \in 1..Len(info) : info[i].move = m}

FirstMatch(info, m) ==
    CHOOSE i \in Matches(info, m) : \A j \in Matches(info, m) : i <= j

\* lines 96-99: the fallback score, negated, or the sentinel
FallbackScoreRaw(fb) ==
    IF fb.kind = "score" THEN fb.val ELSE FallbackSentinel

FallbackScore(fb) ==
    IF fb.kind = "score" THEN 0 - fb.val ELSE FallbackSentinel

\* line 110
IsBlunderAtLeast(score_diff) == IF score_diff >= BlunderThreshold THEN 1 ELSE 0

IsBlunder(score_diff) == IF score_diff > BlunderThreshold THEN 1 ELSE 0

\* lines 102-112.  game and ply are history fields: where the record came
\* from; the code's dict has the other seven.
MakeRecord(b, elo, best_score, human_score, g, k) ==
    [fen         |-> Fen(b),
     elo         |-> elo,
     best_score  |-> best_score,
     human_score |-> human_score,
     score_diff  |-> best_score - human_score,
     is_blunder  |-> IsBlunder(best_score - human_score),
     complexity  |-> 0,
     game        |-> g,
     ply         |-> k]

\* lines 81-83: no best move; the move is pushed inside the try and the loop
\* continues.  A raising push is caught at line 114 and line 118 pushes.
SkipPlyNoPush(b, m, checked) == [board |-> b, raised |-> FALSE]

SkipPly(b, m, checked) ==
    LET p == Push(b, m, checked) IN
    IF p.raised THEN Push(p.board, m, checked) ELSE p

\* data.append(...)
AppendRecordFront(data, r) == <<r>> \o data

AppendRecord(data, r) == Append(data, r)

\* One iteration of the loop of lines 73-118 on board b with played move m:
\* the board afterwards, the records appended, the engine calls made and
\* whether an exception left the loop (raised).
ScorePly(eng, b, m, elo, an, fb, checked, g, k) ==
    LET a == analyze_position_worker(eng, b, an) IN
    IF a.raised
    THEN \* line 114 swallows it, line 118 pushes
         LET p == Push(b, m, checked) IN
         [board |-> p.board, recs |-> <<>>, calls |-> a.calls, raised |-> p.raised]
    ELSE IF ~a.has
    THEN LET p == SkipPly(b, m, checked) IN
         [board |-> p.board, recs |-> <<>>, calls |-> a.calls, raised |-> p.raised]
    ELSE IF Matches(a.info, m) # {}
    THEN LET r == MakeRecord(b, elo, a.score, a.info[FirstMatch(a.info, m)].score, g, k)
             p == Push(b, m, checked)
         IN  [board |-> p.board, recs |-> <<r>>, calls |-> a.calls, raised |-> p.raised]
    ELSE \* lines 93-100: the played move is in no line
         LET p1   == Push(b, m, checked)
             call == [kind |-> "evaluate", pos |-> Fen(p1.board), session |-> eng]
         IN
         IF p1.raised
         THEN LET p == Push(p1.board, m, checked) IN
              [board |-> p.board, recs |-> <<>>, calls |-> a.calls, raised |-> p.raised]
         ELSE IF fb.kind = "raise"
         THEN \* line 95 raises: line 100 is skipped, line 118 pushes again
              LET p == Push(p1.board, m, checked) IN
              [board |-> p.board, recs |-> <<>>,
               calls |-> Append(a.calls, call), raised |-> p.raised]
         ELSE LET b2 == Pop(p1.board)
                  r  == MakeRecord(b2, elo, a.score, FallbackScore(fb), g, k)
                  p  == Push(b2, m, checked)
              IN  [board |-> p.board, recs |-> <<r>>,
                   calls |-> Append(a.calls, call), raised |-> p.raised]

\* the fallback evaluation is asked for only when a best move exists and the
\* played move is in no line
NeedsFallback(eng, an, m) ==
    eng # NoEngine /\ an.ok /\ an.info # <<>> /\ Matches(an.info, m) = {}

\* lines 57-68: both ratings present and numeric
IsNumeric(s) == s \in {"1500", "1800"}

IntOf(s) == IF s = "1500" THEN 1500 ELSE 1800

HeadersOk(game) ==
    /\ game.white_elo # "?"
    /\ game.black_elo # "?"
    /\ IsNumeric(game.white_elo)
    /\ IsNumeric(game.black_elo)

\* line 74
CurrentElo(game, b) ==
    IF Turn(b) = "w" THEN IntOf(game.white_elo) ELSE IntOf(game.black_elo)

\* the k-th move of game g; no two plies of any two games share a move
MoveOf(g, k) == 10 * g + k

GameOf(g, n, w, bl) ==
    [id |-> g, white_elo |-> w, black_elo |-> bl, moves |-> [k \in 1..n |-> MoveOf(g, k)]]

\* the position after the first k moves of a game
Replay(game, k) == SubSeq(game.moves, 1, k)

\* ----------------------------------------------------------- strings

\* A string is a sequence of one-character strings.

\* str.split(" "): the fields between single spaces, empty fields kept
RECURSIVE Split(_)
Split(s) ==
    IF \A i \in 1..Len(s) : s[i] # " "
    THEN <<s>>
    ELSE LET i == CHOOSE k \in 1..Len(s) :
                     s[k] = " " /\ \A j \in 1..(k - 1) : s[j] # " "
         IN  <<SubSeq(s, 1, i - 1)>> \o Split(SubSeq(s, i + 1, Len(s)))

\* " ".join(parts)
RECURSIVE Join(_)
Join(parts) ==
    IF parts = <<>> THEN <<>>
    ELSE IF Len(parts) = 1 THEN parts[1]
    ELSE parts[1] \o <<" ">> \o Join(Tail(parts))

\* lines 61-64 of api.py: the other side
FlipSideStuck(side) == <<"b">>

FlipSide(side) == IF side = <<"w">> THEN <<"b">> ELSE <<"w">>

NoString == [ok |-> FALSE, val |-> <<>>, err |-> "none"]

\* flip_fen_turn(fen), api.py lines 57-67: the string returned, or the
\* ValueError raised
flip_fen_turn(fen) ==
    LET parts == Split(fen) IN
    IF Len(parts) < 2
    THEN [ok |-> FALSE, val |-> <<>>, err |-> "FEN missing side-to-move field."]
    ELSE IF parts[2] = <<"w">> \/ parts[2] = <<"b">>
    THEN [ok |-> TRUE, val |-> Join([parts EXCEPT ![2] = FlipSide(parts[2])]),
          err |-> "none"]
    ELSE [ok |-> FALSE, val |-> <<>>, err |-> "FEN has invalid side-to-move field."]

\* the strings SpecFlip tries
FlipChars == {"w", "b", " ", "x"}

FlipInputs == UNION {[1..n -> FlipChars] : n \in 0..MaxLen}

\* ------------------------------------------------------------------ state

VARIABLES
    pushChecked,   \* whether push() checks pseudo-legality in this build
    g_engine,      \* SpecGame: the worker's global engine
    g_game,        \* SpecGame: the game handed to process_single_game
    g_pc,          \* SpecGame: "boot", "idle", "loop", "returned", "raised"
    g_board,       \* SpecGame: board
    g_ply,         \* SpecGame: number of moves the for loop has taken
    g_data,        \* SpecGame: data
    g_last,        \* SpecGame: history of the last loop iteration
    wpc,           \* Spec: each worker process: "boot", "idle", "busy"
    engine,        \* Spec: each worker's global engine
    quits,         \* Spec: how often each worker's session has been closed
    taskq,         \* Spec: the pool's task queue: chunks of games
    job,           \* Spec: each worker's current task
    outq,          \* Spec: results posted by workers, in completion order
    ppc,           \* Spec: the parent: "collect", "saved", "raised"
    ncollected,    \* Spec: tasks whose results the parent has consumed
    all_data,      \* Spec: all_data
    csv,           \* Spec: the rows written to OUTPUT_FILE
    csv_written,   \* Spec: whether OUTPUT_FILE was written
    ran,           \* Spec history: per game, the workers that ran it
    produced,      \* Spec history: per game, the records its run appended to data
    sessions,      \* Spec history: per game, the sessions its engine calls used
    yielded,       \* Spec history: per game, result lists the parent received
    f_in,          \* SpecFlip: the string handed to flip_fen_turn
    f_out,         \* SpecFlip: what flip_fen_turn(f_in) did
    f_back,        \* SpecFlip: what flip_fen_turn did on its own result
    f_pc,          \* SpecFlip: "start", "flipped", "twice", "off"
    a_model,       \* SpecApi: the global model: "none" or "loaded"
    a_pc,          \* SpecApi: "boot", "idle", "loop", "calling", "done", "off"
    a_req,         \* SpecApi: the request being handled
    a_board,       \* SpecApi: board of predict_moves
    a_legal,       \* SpecApi: legal_moves
    a_i,           \* SpecApi: moves of legal_moves the loop has finished
    a_baseline,    \* SpecApi: baseline_opponent_probability
    a_results,     \* SpecApi: results
    a_resp,        \* SpecApi: the response, or the HTTPException raised
    a_calls,       \* SpecApi history: the calls of predict_probability
    a_outs,        \* SpecApi history: what model.predict gave for each call
    s_pc,          \* SpecScores: "start", "scored", "off"
    s_move,        \* SpecScores: the move played at the ply
    s_an,          \* SpecScores: what the engine reports for the position
    s_fb,          \* SpecScores: what the engine reports on the fallback path
    s_out          \* SpecScores: the outcome of the ply

gvars == <<g_engine, g_game, g_pc, g_board, g_ply, g_data, g_last>>

pvars == <<wpc, engine, quits, taskq, job, outq, ppc, ncollected, all_data,
           csv, csv_written, ran, produced, sessions, yielded>>

fvars == <<f_in, f_out, f_back, f_pc>>

avars == <<a_model, a_pc, a_req, a_board, a_legal, a_i, a_baseline, a_results,
           a_resp, a_calls, a_outs>>

\* the state of the serving side
svars == <<s_pc, s_move, s_an, s_fb, s_out>>

xvars == <<fvars, avars, svars>>

vars == <<pushChecked, gvars, pvars, xvars>>

\* SpecFlip is not running
FlipIdle ==
    /\ f_in = <<>>
    /\ f_out = NoString
    /\ f_back = NoString
    /\ f_pc = "off"

\* ------------------------------------------- scores as the engine gives them

\* line 40: score(mate_score=10000)
MateScore == 10000

\* A chess.engine.Score relative to the side to move: centipawns, or mate in
\* v moves (v > 0: the side to move mates; v <= 0: it is mated).
CpValues == {-15000, 50, 15000}

MateValues == {-1, 0, 2}

RawScores == [kind : {"cp"}, v : CpValues] \cup [kind : {"mate"}, v : MateValues]

\* Score.score(mate_score=10000): Cp(v) gives v; Mate(v) gives 10000 - v for
\* v > 0 and -10000 - v otherwise
RelScoreUnsigned(pov) ==
    IF pov.kind = "cp" THEN pov.v ELSE MateScore - pov.v

RelScore(pov) ==
    IF pov.kind = "cp" THEN pov.v
    ELSE IF pov.v > 0 THEN MateScore - pov.v
    ELSE (0 - MateScore) - pov.v

RawLines(m) == [move : {m, OtherMove}, score : RawScores]

\* the replies of engine.analyse before the scores are read
RawAnalyseReplies(m) ==
    {[ok |-> TRUE, info |-> l] : l \in UNION {[1..n -> RawLines(m)] : n \in 1..MaxLines}}

RawEvalReplies ==
    {[kind |-> "raise", score |-> [kind |-> "cp", v |-> 50]],
     [kind |-> "noscore", score |-> [kind |-> "cp", v |-> 50]]} \cup
    {[kind |-> "score", score |-> sc] : sc \in RawScores}

\* lines 40, 90 and 97: the scores read from the replies
ReadInfo(an) ==
    [ok |-> an.ok,
     info |-> [i \in 1..Len(an.info) |->
                  [move |-> an.info[i].move, score |-> RelScore(an.info[i].score)]]]

ReadEval(fb) == [kind |-> fb.kind, val |-> RelScore(fb.score)]

NoOut == [board |-> <<>>, recs |-> <<>>, calls |-> <<>>, raised |-> FALSE]

\* SpecScores is not running
ScoresIdle ==
    /\ s_pc = "off"
    /\ s_move = OtherMove
    /\ s_an = [ok |-> FALSE, info |-> <<>>]
    /\ s_fb = [kind |-> "raise", score |-> [kind |-> "cp", v |-> 50]]
    /\ s_out = NoOut

\* ------------------------------------------------- positions of the API

\* api.py line 44: elo <= 0 or elo > 3000; line 52: elo / 3000.0
EloMax == 3000

\* the characters of a position's code
DigitChar(n) == <<"0", "1", "2", "3", "4", "5", "6", "7", "8", "9">>[n + 1]

DigitVal(c) == CHOOSE n \in 0..9 : DigitChar(n) = c

OtherSide(t) == IF t = "w" THEN "b" ELSE "w"

\* A chess.Board of the API: the requested position, named by the number of
\* its legal moves (root) and its side to move (turn0), and the moves pushed
\* on it.  The legal moves of the requested position are 1..root, in the
\* order board.legal_moves gives them.
ApiBoard(n, t) == [root |-> n, turn0 |-> t, stack |-> <<>>]

\* board.turn
BoardTurn(bd) == IF Len(bd.stack) % 2 = 0 THEN bd.turn0 ELSE OtherSide(bd.turn0)

\* the piece placement: the requested one, changed by every move pushed
Placement(bd) ==
    <<"p", DigitChar(bd.root)>> \o [i \in 1..Len(bd.stack) |-> DigitChar(bd.stack[i])]

\* board.fen(): placement, side to move, and the remaining four fields
BoardFen(bd) ==
    Placement(bd) \o <<" ", BoardTurn(bd), " ", "-", " ", "-", " ", "0", " ", "1">>

\* list(board.legal_moves)
LegalMoves(bd) == IF bd.stack = <<>> THEN [i \in 1..bd.root |-> i] ELSE <<>>

\* board.push(move) and board.pop() on the API's board
BoardPush(bd, m) == [bd EXCEPT !.stack = Append(bd.stack, m)]

BoardPopKeep(bd) == bd

BoardPop(bd) == [bd EXCEPT !.stack = SubSeq(bd.stack, 1, Len(bd.stack) - 1)]

NonEmpty(f) == f # <<>>

ValidPlacement(f) ==
    /\ Len(f) = 2
    /\ f[1] = "p"
    /\ f[2] \in {DigitChar(n) : n \in 0..MaxMoves}

NoBoard == ApiBoard(0, "w")

\* chess.Board(fen): fields are split at white space; the placement must be
\* valid; a missing side to move is white's, any other than w or b raises
ParseBoard(fen) ==
    LET fs == SelectSeq(Split(fen), NonEmpty) IN
    IF fs = <<>> THEN [ok |-> FALSE, board |-> NoBoard]
    ELSE IF ~ValidPlacement(fs[1]) THEN [ok |-> FALSE, board |-> NoBoard]
    ELSE IF Len(fs) >= 2 /\ fs[2] # <<"w">> /\ fs[2] # <<"b">>
    THEN [ok |-> FALSE, board |-> NoBoard]
    ELSE [ok |-> TRUE,
          board |-> ApiBoard(DigitVal(fs[1][2]), IF Len(fs) >= 2 THEN fs[2][1] ELSE "w")]

\* the position strings a request may carry: empty, blank, not a position,
\* a position with an invalid side, full positions, and bare placements
ValidFens ==
    {BoardFen(ApiBoard(n, t)) : n \in 0..MaxMoves, t \in {"w", "b"}} \cup
    {Placement(ApiBoard(n, "w")) : n \in 0..MaxMoves}

RequestFens ==
    {<<>>, <<" ">>, <<"?">>, <<"p", "1", " ", "x">>} \cup ValidFens

RequestElos == {0, 1, EloMax, EloMax + 1}

\* model.predict: the probability (in percent), or an exception
Probs == {20, 70}

PredictOutcomes ==
    {[ok |-> FALSE, val |-> 0]} \cup {[ok |-> TRUE, val |-> v] : v \in Probs}

NoOutcome == [ok |-> FALSE, val |-> 0]

\* ------------------------------------------------------- api.py handlers

Rejected(status, detail) ==
    [ok |-> FALSE, board |-> NoBoard, status |-> status, detail |-> detail]

\* validate_fen(fen), lines 30-36
validate_fen(fen) ==
    IF \A i \in 1..Len(fen) : fen[i] = " "
    THEN Rejected(400, "FEN is required.")
    ELSE LET b == ParseBoard(fen) IN
         IF b.ok THEN [ok |-> TRUE, board |-> b.board, status |-> 200, detail |-> "none"]
         ELSE Rejected(400, "Invalid FEN")

\* line 44
EloOutOfRangeLoose(elo) == elo < 0 \/ elo > EloMax

EloOutOfRange(elo) == elo <= 0 \/ elo > EloMax

\* validate_request(fen, elo), lines 39-46
validate_request(mdl, fen, elo) ==
    IF mdl = "none" THEN Rejected(503, "Model not loaded. Train it or add models/human_error_model_elo.keras.")
    ELSE IF EloOutOfRange(elo) THEN Rejected(400, "Elo must be between 1 and 3000.")
    ELSE validate_fen(fen)

\* fen_to_tensor(fen), lines 76-91: the planes are filled from the piece map
\* alone, that is from the placement field
fen_to_tensor(fen) == Split(fen)[1]

\* predict_probability(fen, elo), lines 49-54: the call made of model.predict
\* (the rating divided by 3000, in thousandths)
PredictCall(fen, elo) ==
    [fen |-> fen, board_input |-> fen_to_tensor(fen),
     elo_input |-> (elo * 1000) \div EloMax]

SideName(t) == IF t = "w" THEN "white" ELSE "black"

\* lines 123-124
HasNoMovesNever(legal) == FALSE

HasNoMoves(legal) == legal = <<>>

\* line 150
DeltaSwapped(prob, base) == base - prob

Delta(prob, base) == prob - base

NoResp == [status |-> 0, detail |-> "none", side_to_move |-> "none",
           probability |-> 0, is_risky |-> FALSE,
           opponent_baseline_probability |-> 0, moves |-> <<>>]

Failure(status, detail) == [NoResp EXCEPT !.status = status, !.detail = detail]

NoRequest == [endpoint |-> "none", fen |-> <<>>, elo |-> 0]

\* SpecApi is not running
ApiIdle ==
    /\ a_model = "none"
    /\ a_pc = "off"
    /\ a_req = NoRequest
    /\ a_board = NoBoard
    /\ a_legal = <<>>
    /\ a_i = 0
    /\ a_baseline = 0
    /\ a_results = <<>>
    /\ a_resp = NoResp
    /\ a_calls = <<>>
    /\ a_outs = <<>>

Workers == 1..NumWorkers

Games == 1..NumGames

\* ------------------------------------------------------------ the pool

\* The pool runs while the parent is inside the with block (ppc = "collect");
\* leaving it, by line 166 or by an exception, terminates the pool: the
\* worker processes are killed where they stand and take no further step.

\* the tasks imap_unordered makes of games_buffer: consecutive chunks
NumChunks == (NumGames + ChunkSize - 1) \div ChunkSize

ChunkAt(i) ==
    LET lo == (i - 1) * ChunkSize + 1
        hi == IF i * ChunkSize < NumGames THEN i * ChunkSize ELSE NumGames
    IN  [j \in 1..(hi - lo + 1) |-> lo + j - 1]

NoJob == [chunk |-> <<>>, games |-> <<>>, results |-> <<>>, failed |-> FALSE]

\* the pool before any worker has started
PoolStart ==
    /\ wpc = [w \in Workers |-> "boot"]
    /\ engine = [w \in Workers |-> NoEngine]
    /\ quits = [w \in Workers |-> 0]
    /\ taskq = [i \in 1..NumChunks |-> ChunkAt(i)]
    /\ job = [w \in Workers |-> NoJob]
    /\ outq = <<>>
    /\ ppc = "collect"
    /\ ncollected = 0
    /\ all_data = <<>>
    /\ csv = <<>>
    /\ csv_written = FALSE
    /\ ran = [g \in Games |-> <<>>]
    /\ produced = [g \in Games |-> <<>>]
    /\ sessions = [g \in Games |-> {}]
    /\ yielded = [g \in Games |-> 0]

\* SpecGame runs no pool
PoolIdle ==
    /\ wpc = [w \in Workers |-> "boot"]
    /\ engine = [w \in Workers |-> NoEngine]
    /\ quits = [w \in Workers |-> 0]
    /\ taskq = <<>>
    /\ job = [w \in Workers |-> NoJob]
    /\ outq = <<>>
    /\ ppc = "saved"
    /\ ncollected = 0
    /\ all_data = <<>>
    /\ csv = <<>>
    /\ csv_written = FALSE
    /\ ran = [g \in Games |-> <<>>]
    /\ produced = [g \in Games |-> <<>>]
    /\ sessions = [g \in Games |-> {}]
    /\ yielded = [g \in Games |-> 0]

NoPly == [k |-> 0, before |-> <<>>, move |-> OtherMove, engine |-> NoEngine,
          an |-> [ok |-> FALSE, info |-> <<>>], fb |-> NoEval,
          calls |-> <<>>, nbefore |-> 0, raised |-> FALSE]

HeaderPairs == {<<"1500", "1800">>, <<"?", "1800">>, <<"1500", "12x">>}

GInit ==
    /\ pushChecked \in BOOLEAN
    /\ g_engine = NoEngine
    /\ \E h \in HeaderPairs : g_game = GameOf(1, MaxPlies, h[1], h[2])
    /\ g_pc = "boot"
    /\ g_board = <<>>
    /\ g_ply = 0
    /\ g_data = <<>>
    /\ g_last = NoPly
    /\ PoolIdle
    /\ FlipIdle
    /\ ApiIdle
    /\ ScoresIdle

\* init_worker, lines 21-27: the session opens, or the exception is printed
\* and engine stays None
GInitWorker ==
    /\ g_pc = "boot"
    /\ \E opened \in BOOLEAN : g_engine' = IF opened THEN 1 ELSE NoEngine
    /\ g_pc' = "idle"
    /\ UNCHANGED <<pushChecked, g_game, g_board, g_ply, g_data, g_last, pvars, xvars>>

\* process_single_game, lines 55-71
GBegin ==
    /\ g_pc = "idle"
    /\ g_pc' = IF HeadersOk(g_game) THEN "loop" ELSE "returned"
    /\ g_board' = <<>>
    /\ g_data' = <<>>
    /\ g_ply' = 0
    /\ UNCHANGED <<pushChecked, g_engine, g_game, g_last, pvars, xvars>>

\* one iteration of the for loop, lines 73-118
GScorePly ==
    /\ g_pc = "loop"
    /\ g_ply < Len(g_game.moves)
    /\ LET m == g_game.moves[g_ply + 1] IN
       \E an \in AnalyseReplies(m), fb \in EvalReplies :
          /\ NeedsFallback(g_engine, an, m) \/ fb = NoEval
          /\ g_engine # NoEngine \/ ~an.ok
          /\ LET r == ScorePly(g_engine, g_board, m, CurrentElo(g_game, g_board),
                               an, fb, pushChecked, g_game.id, g_ply)
             IN  /\ g_board' = r.board
                 /\ g_data' = IF r.recs = <<>> THEN g_data
                              ELSE AppendRecord(g_data, r.recs[1])
                 /\ g_pc' = IF r.raised THEN "raised" ELSE "loop"
                 /\ g_last' = [k |-> g_ply, before |-> g_board, move |-> m,
                               engine |-> g_engine, an |-> an, fb |-> fb,
                               calls |-> r.calls, nbefore |-> Len(g_data),
                               raised |-> r.raised]
    /\ g_ply' = g_ply + 1
    /\ UNCHANGED <<pushChecked, g_engine, g_game, pvars, xvars>>

\* line 120
GReturn ==
    /\ g_pc = "loop"
    /\ g_ply = Len(g_game.moves)
    /\ g_pc' = "returned"
    /\ UNCHANGED <<pushChecked, g_engine, g_game, g_board, g_ply, g_data, g_last, pvars, xvars>>

GNext == GInitWorker \/ GBegin \/ GScorePly \/ GReturn

SpecGame == GInit /\ [][GNext]_vars

\* ------------------------------------------------ the pool's worker task

\* What the engine does at one ply of a pool game: "top" returns one line
\* headed by the played move, "drop" returns one line with another move and
\* then raises on the fallback call.
PoolReplyKinds == {"top", "drop"}

PoolAn(kind, m) ==
    [ok |-> TRUE,
     info |-> <<[move |-> IF kind = "top" THEN m ELSE OtherMove, score |-> 101]>>]

PoolFb(kind) == NoEval

\* the for loop of lines 73-118 from ply k on
RECURSIVE RunPlies(_, _, _, _, _, _, _, _)
RunPlies(game, eng, script, checked, k, b, data, calls) ==
    IF k = Len(game.moves)
    THEN [data |-> data, raised |-> FALSE, calls |-> calls]
    ELSE LET m == game.moves[k + 1]
             r == ScorePly(eng, b, m, CurrentElo(game, b), PoolAn(script[k + 1], m),
                           PoolFb(script[k + 1]), checked, game.id, k)
             d == IF r.recs = <<>> THEN data ELSE AppendRecord(data, r.recs[1])
         IN  IF r.raised
             THEN [data |-> d, raised |-> TRUE, calls |-> calls \o r.calls]
             ELSE RunPlies(game, eng, script, checked, k + 1, r.board, d,
                           calls \o r.calls)

\* process_single_game(game), lines 43-120: the list returned, or the
\* exception that left the function (data then holds what was appended
\* before it)
process_single_game(game, eng, script, checked) ==
    IF ~HeadersOk(game)
    THEN [data |-> <<>>, raised |-> FALSE, calls |-> <<>>]
    ELSE RunPlies(game, eng, script, checked, 0, <<>>, <<>>, <<>>)

\* games_buffer: games of two plies and of one ply, alternating
PoolPlies(g) == 1 + (g % 2)

GameAt(g) == GameOf(g, PoolPlies(g), "1500", "1800")

\* for res in results_iterator: all_data.extend(res), over one task's results
RECURSIVE ExtendAll(_, _)
ExtendAll(all, results) ==
    IF results = <<>> THEN all
    ELSE ExtendAll(all \o Head(results), Tail(results))

Running == ppc = "collect"

Init ==
    /\ pushChecked \in BOOLEAN
    /\ g_engine = NoEngine
    /\ g_game = GameOf(1, 0, "?", "?")
    /\ g_pc = "returned"
    /\ g_board = <<>>
    /\ g_ply = 0
    /\ g_data = <<>>
    /\ g_last = NoPly
    /\ PoolStart
    /\ FlipIdle
    /\ ApiIdle
    /\ ScoresIdle

\* init_worker in worker w, lines 21-27
InitWorker(w) ==
    /\ Running
    /\ wpc[w] = "boot"
    /\ \E opened \in BOOLEAN :
          engine' = [engine EXCEPT ![w] = IF opened THEN w ELSE NoEngine]
    /\ wpc' = [wpc EXCEPT ![w] = "idle"]
    /\ UNCHANGED <<pushChecked, gvars, xvars, quits, taskq, job, outq, ppc, ncollected,
                   all_data, csv, csv_written, ran, produced, sessions, yielded>>

\* an idle worker takes the next task off the queue
GetTask(w) ==
    /\ Running
    /\ wpc[w] = "idle"
    /\ taskq # <<>>
    /\ job' = [job EXCEPT ![w] = [chunk |-> Head(taskq), games |-> Head(taskq),
                                  results |-> <<>>, failed |-> FALSE]]
    /\ taskq' = Tail(taskq)
    /\ wpc' = [wpc EXCEPT ![w] = "busy"]
    /\ UNCHANGED <<pushChecked, gvars, xvars, engine, quits, outq, ppc, ncollected,
                   all_data, csv, csv_written, ran, produced, sessions, yielded>>

\* the worker maps process_single_game over its chunk: the next game.  An
\* exception leaving process_single_game ends the task.
RunGame(w) ==
    /\ Running
    /\ wpc[w] = "busy"
    /\ job[w].chunk # <<>>
    /\ ~job[w].failed
    /\ LET g == Head(job[w].chunk) IN
       \E script \in [1..PoolPlies(g) -> PoolReplyKinds] :
          /\ engine[w] # NoEngine \/ \A k \in 1..PoolPlies(g) : script[k] = "top"
          /\ LET res == process_single_game(GameAt(g), engine[w], script, pushChecked)
             IN  /\ job' = [job EXCEPT ![w] =
                              [chunk   |-> Tail(job[w].chunk),
                               games   |-> job[w].games,
                               results |-> IF res.raised THEN job[w].results
                                           ELSE Append(job[w].results, res.data),
                               failed  |-> res.raised]]
                 /\ ran' = [ran EXCEPT ![g] = Append(ran[g], w)]
                 /\ produced' = [produced EXCEPT ![g] = produced[g] \o res.data]
                 /\ sessions' = [sessions EXCEPT ![g] =
                       sessions[g] \cup {res.calls[i].session : i \in 1..Len(res.calls)}]
    /\ UNCHANGED <<pushChecked, gvars, xvars, wpc, engine, quits, taskq, outq, ppc,
                   ncollected, all_data, csv, csv_written, yielded>>

\* the task is over: its result, or its exception, goes to the parent
PutResult(w) ==
    /\ Running
    /\ wpc[w] = "busy"
    /\ job[w].chunk = <<>> \/ job[w].failed
    /\ outq' = Append(outq, [ok |-> ~job[w].failed, results |-> job[w].results,
                             games |-> job[w].games])
    /\ job' = [job EXCEPT ![w] = NoJob]
    /\ wpc' = [wpc EXCEPT ![w] = "idle"]
    /\ UNCHANGED <<pushChecked, gvars, xvars, engine, quits, taskq, ppc, ncollected,
                   all_data, csv, csv_written, ran, produced, sessions, yielded>>

\* lines 164-165: the parent takes the next finished task and extends
\* all_data with each of its games' lists
Collect ==
    /\ Running
    /\ outq # <<>>
    /\ Head(outq).ok
    /\ all_data' = ExtendAll(all_data, Head(outq).results)
    /\ yielded' = [g \in Games |->
                     IF \E i \in 1..Len(Head(outq).games) : Head(outq).games[i] = g
                     THEN yielded[g] + 1 ELSE yielded[g]]
    /\ ncollected' = ncollected + 1
    /\ outq' = Tail(outq)
    /\ UNCHANGED <<pushChecked, gvars, xvars, wpc, engine, quits, taskq, job, ppc,
                   csv, csv_written, ran, produced, sessions>>

\* the iterator re-raises a task's exception in the parent: the with block
\* terminates the pool and process_games_multiprocess is left by the
\* exception, before line 168; all_data is lost with the frame
CollectRaises ==
    /\ Running
    /\ outq # <<>>
    /\ ~Head(outq).ok
    /\ ppc' = "raised"
    /\ outq' = Tail(outq)
    /\ UNCHANGED <<pushChecked, gvars, xvars, wpc, engine, quits, taskq, job, ncollected,
                   all_data, csv, csv_written, ran, produced, sessions, yielded>>

\* every task has been consumed: the with block ends, which terminates the
\* pool, and lines 168-170 write all_data
Save ==
    /\ Running
    /\ ncollected = NumChunks
    /\ csv' = all_data
    /\ csv_written' = TRUE
    /\ ppc' = "saved"
    /\ UNCHANGED <<pushChecked, gvars, xvars, wpc, engine, quits, taskq, job, outq, ncollected,
                   all_data, ran, produced, sessions, yielded>>

Next ==
    \/ \E w \in Workers : InitWorker(w)
    \/ \E w \in Workers : GetTask(w)
    \/ \E w \in Workers : RunGame(w)
    \/ \E w \in Workers : PutResult(w)
    \/ Collect
    \/ CollectRaises
    \/ Save

Spec == Init /\ [][Next]_vars

\* ------------------------------------------- the move scorer, ply by ply

\* the last loop iteration's played move, candidate lines and new records
LastRan == g_last # NoPly

LastInfo == g_last.an.info

LastRecs == SubSeq(g_data, g_last.nbefore + 1, Len(g_data))

\* the last iteration got a non-empty candidate list from the engine
LastAnalysed ==
    LastRan /\ g_last.engine # NoEngine /\ g_last.an.ok /\ LastInfo # <<>>

LastMatched == \E i \in 1..Len(LastInfo) : LastInfo[i].move = g_last.move

\* the last iteration went to the fallback evaluation
LastFellBack == LastAnalysed /\ ~LastMatched

\* C1: every record of data has score_diff = best_score - human_score and
\* is_blunder in {0, 1}, with is_blunder = 1 exactly when score_diff > 100.
C1_ScoreDiffAndLabel ==
    \A i \in 1..Len(g_data) :
        /\ g_data[i].score_diff = g_data[i].best_score - g_data[i].human_score
        /\ g_data[i].is_blunder \in {0, 1}
        /\ g_data[i].is_blunder = 1 <=> g_data[i].score_diff > 100

\* data holds a record at the threshold (labelled 0) and one just above it
\* (labelled 1)
C1_Witness ==
    /\ \E i \in 1..Len(g_data) :
          g_data[i].score_diff = 100 /\ g_data[i].is_blunder = 0
    /\ \E i \in 1..Len(g_data) :
          g_data[i].score_diff = 101 /\ g_data[i].is_blunder = 1

\* C2: scoring ply k leaves the board unchanged on every path: the position
\* handed to the engine and the fen of the record are the start position
\* with the first k moves applied, and after the ply the board holds exactly
\* the first k+1 moves.
C2_BoardIsReplay ==
    LastRan =>
        /\ g_last.calls # <<>> =>
              g_last.calls[1].pos = Fen(Replay(g_game, g_last.k))
        /\ \A i \in 1..Len(LastRecs) :
              LastRecs[i].fen = Fen(Replay(g_game, g_last.k))
        /\ g_board = Replay(g_game, g_last.k + 1)

\* C3: if the played move heads some candidate line, human_score is the
\* score of the first such line and the engine was called once; if it heads
\* none and the fallback evaluation returned a score, human_score is the
\* negation of that score, asked for the position after the played move.
C3_HumanScoreSource ==
    /\ (LastAnalysed /\ LastMatched) =>
          /\ Len(g_last.calls) = 1
          /\ Len(LastRecs) = 1
          /\ \E i \in 1..Len(LastInfo) :
                /\ LastInfo[i].move = g_last.move
                /\ \A j \in 1..(i - 1) : LastInfo[j].move # g_last.move
                /\ LastRecs[1].human_score = LastInfo[i].score
    /\ (LastFellBack /\ g_last.fb.kind = "score") =>
          /\ Len(g_last.calls) = 2
          /\ g_last.calls[2].kind = "evaluate"
          /\ g_last.calls[2].pos = Fen(Append(g_last.before, g_last.move))
          /\ Len(LastRecs) = 1
          /\ LastRecs[1].human_score = 0 - g_last.fb.val

\* the played move was in none of two candidate lines and the record took
\* its human_score from the negated fallback score
C3_Witness ==
    /\ LastFellBack
    /\ Len(LastInfo) = 2
    /\ g_last.fb.kind = "score"
    /\ g_last.fb.val = 100
    /\ Len(LastRecs) = 1
    /\ LastRecs[1].human_score = -100

\* C4: if the fallback evaluation fails in any way (the engine call raises,
\* or its result has no usable score), a record is still emitted with
\* human_score = -9999 and score_diff = best_score + 9999.
C4_FallbackFailureGivesSentinel ==
    (LastFellBack /\ g_last.fb.kind \in {"raise", "noscore"}) =>
        /\ Len(LastRecs) = 1
        /\ LastRecs[1].human_score = -9999
        /\ LastRecs[1].score_diff = LastRecs[1].best_score + 9999

\* C9: when the engine returns no candidates, or the worker has no engine,
\* the ply emits no record, makes no engine call beyond the one analyse call
\* (none at all without an engine) and advances the board by exactly the
\* played move.
C9_EmptyCandidatesSkip ==
    (LastRan /\ (g_last.engine = NoEngine \/ (g_last.an.ok /\ LastInfo = <<>>))) =>
        /\ Len(g_data) = g_last.nbefore
        /\ Len(g_last.calls) <= 1
        /\ g_last.engine = NoEngine => g_last.calls = <<>>
        /\ \A i \in 1..Len(g_last.calls) : g_last.calls[i].kind = "analyse"
        /\ g_board = Append(g_last.before, g_last.move)
        /\ ~g_last.raised

\* the second ply got an empty candidate list from an open engine
C9_Witness ==
    /\ LastRan
    /\ g_last.k = 1
    /\ g_last.engine # NoEngine
    /\ g_last.an.ok
    /\ LastInfo = <<>>
    /\ Len(g_last.calls) = 1
    /\ g_board = Append(g_last.before, g_last.move)

\* C10: when the played move heads the engine's first line, the record has
\* human_score = best_score, score_diff = 0 and is_blunder = 0; best_score
\* is always the score of the first line in the engine's order.
C10_TopMovePlayed ==
    /\ (LastAnalysed /\ LastInfo[1].move = g_last.move) =>
          /\ Len(LastRecs) = 1
          /\ LastRecs[1].human_score = LastRecs[1].best_score
          /\ LastRecs[1].score_diff = 0
          /\ LastRecs[1].is_blunder = 0
    /\ LastAnalysed =>
          \A i \in 1..Len(LastRecs) : LastRecs[i].best_score = LastInfo[1].score

\* the played move headed the first line while a later line scored higher
C10_Witness ==
    /\ LastAnalysed
    /\ Len(LastInfo) = 2
    /\ LastInfo[1].move = g_last.move
    /\ LastInfo[2].score > LastInfo[1].score
    /\ Len(LastRecs) = 1
    /\ LastRecs[1].score_diff = 0

\* ------------------------------------------------------------ the pool run

RecordsOf(rows, g) == SelectSeq(rows, LAMBDA r : r.game = g)

\* worker w ran init_worker and its session did not open
InitFailed(w) == wpc[w] # "boot" /\ engine[w] = NoEngine

\* records of one game form one block, in increasing ply order
InPlyOrder(rows) ==
    \A i, j \in 1..Len(rows) :
        (i < j /\ rows[i].game = rows[j].game) =>
            /\ rows[i].ply < rows[j].ply
            /\ \A l \in i..j : rows[l].game = rows[i].game

\* C5: a failure raised while one game is processed affects only that game:
\* when the run has ended, the output was written, every game was run, and
\* the output holds, for every game, the records its run produced (those
\* produced before a failure included).
C5_FailureAffectsOnlyThatGame ==
    ~Running =>
        /\ csv_written
        /\ \A g \in Games :
              /\ Len(ran[g]) = 1
              /\ RecordsOf(csv, g) = produced[g]

\* C6: a worker whose init_worker failed stays in the pool with engine =
\* None; its games return empty lists without an engine call; and when the
\* run of a pool with such a worker has ended, it ended without an exception
\* in the parent and every loaded game yielded exactly one result list.
C6_FailedWorkerIsHarmless ==
    /\ \A g \in Games : \A i \in 1..Len(ran[g]) :
          InitFailed(ran[g][i]) => (produced[g] = <<>> /\ sessions[g] = {})
    /\ (~Running /\ \E w \in Workers : InitFailed(w)) =>
          /\ ppc = "saved"
          /\ \A g \in Games : yielded[g] = 1

\* C7: when the pool run has ended, every session a worker opened has been
\* closed exactly once, and no close was made on a session that never opened.
C7_SessionsClosedOnce ==
    ~Running =>
        \A w \in Workers :
            /\ engine[w] # NoEngine => quits[w] = 1
            /\ engine[w] = NoEngine => quits[w] = 0

\* C8: each game is run by one worker, once, with that worker's own session
\* only; a completed run has run every game; and in all_data and in the
\* written output the records of one game form one block in increasing ply
\* order.
C8_OneWorkerPerGameInOrder ==
    /\ \A g \in Games :
          /\ Len(ran[g]) <= 1
          /\ \A i \in 1..Len(ran[g]) : sessions[g] \subseteq {ran[g][i]}
    /\ ppc = "saved" => \A g \in Games : Len(ran[g]) = 1
    /\ InPlyOrder(all_data)
    /\ InPlyOrder(csv)

\* the output was written with the last game's two records first, ahead of
\* records of the first game, the two games run by different workers
C8_Witness ==
    /\ ppc = "saved"
    /\ csv_written
    /\ Len(csv) >= 4
    /\ csv[1].game = NumGames
    /\ csv[2].game = NumGames
    /\ csv[1].ply < csv[2].ply
    /\ Len(RecordsOf(csv, 1)) = 2
    /\ ran[1] # ran[NumGames]

\* -------------------------------------------------------- flip_fen_turn

FInit ==
    /\ pushChecked = FALSE
    /\ g_engine = NoEngine
    /\ g_game = GameOf(1, 0, "?", "?")
    /\ g_pc = "returned"
    /\ g_board = <<>>
    /\ g_ply = 0
    /\ g_data = <<>>
    /\ g_last = NoPly
    /\ PoolIdle
    /\ ApiIdle
    /\ ScoresIdle
    /\ f_in \in FlipInputs
    /\ f_out = NoString
    /\ f_back = NoString
    /\ f_pc = "start"

\* flip_fen_turn(f_in)
FFlip ==
    /\ f_pc = "start"
    /\ f_out' = flip_fen_turn(f_in)
    /\ f_pc' = "flipped"
    /\ UNCHANGED <<pushChecked, gvars, pvars, avars, svars, f_in, f_back>>

\* flip_fen_turn on the string the first call returned
FFlipBack ==
    /\ f_pc = "flipped"
    /\ f_out.ok
    /\ f_back' = flip_fen_turn(f_out.val)
    /\ f_pc' = "twice"
    /\ UNCHANGED <<pushChecked, gvars, pvars, avars, svars, f_in, f_out>>

FNext == FFlip \/ FFlipBack

SpecFlip == FInit /\ [][FNext]_vars

\* the places of the spaces of f_in, and its second field
FSpaces == {i \in 1..Len(f_in) : f_in[i] = " "}

FFirstSpace == CHOOSE i \in FSpaces : \A j \in FSpaces : i <= j

FSecondEnd ==
    LET later == {i \in FSpaces : i > FFirstSpace} IN
    IF later = {} THEN Len(f_in) + 1
    ELSE CHOOSE i \in later : \A j \in later : i <= j

FHasSide ==
    /\ FSpaces # {}
    /\ FSecondEnd = FFirstSpace + 2
    /\ f_in[FFirstSpace + 1] \in {"w", "b"}

\* C15: for a string whose second space-separated field is w or b,
\* flip_fen_turn returns the string with that one character exchanged for
\* the other side and nothing else changed, and applied to its own result it
\* returns the original string; for any other string it raises and returns
\* no string.
C15_FlipIsInvolution ==
    /\ (f_pc \in {"flipped", "twice"} /\ FHasSide) =>
          /\ f_out.ok
          /\ Len(f_out.val) = Len(f_in)
          /\ \A i \in 1..Len(f_in) :
                i # FFirstSpace + 1 => f_out.val[i] = f_in[i]
          /\ f_out.val[FFirstSpace + 1] \in {"w", "b"}
          /\ f_out.val[FFirstSpace + 1] # f_in[FFirstSpace + 1]
    /\ (f_pc = "twice" /\ FHasSide) =>
          /\ f_back.ok
          /\ f_back.val = f_in
    /\ (f_pc \in {"flipped", "twice"} /\ ~FHasSide) =>
          /\ ~f_out.ok
          /\ f_out.val = <<>>
          /\ f_out.err # "none"
          /\ f_pc = "flipped"

\* a string of three fields with side w was flipped to b and back
C15_Witness ==
    /\ f_pc = "twice"
    /\ f_in = <<"x", " ", "w", " ">>
    /\ f_out.val = <<"x", " ", "b", " ">>
    /\ f_back.val = f_in

\* ------------------------------------------------------ serving a request

AInit ==
    /\ pushChecked = FALSE
    /\ g_engine = NoEngine
    /\ g_game = GameOf(1, 0, "?", "?")
    /\ g_pc = "returned"
    /\ g_board = <<>>
    /\ g_ply = 0
    /\ g_data = <<>>
    /\ g_last = NoPly
    /\ PoolIdle
    /\ FlipIdle
    /\ ScoresIdle
    /\ a_model = "none"
    /\ a_pc = "boot"
    /\ a_req = NoRequest
    /\ a_board = NoBoard
    /\ a_legal = <<>>
    /\ a_i = 0
    /\ a_baseline = 0
    /\ a_results = <<>>
    /\ a_resp = NoResp
    /\ a_calls = <<>>
    /\ a_outs = <<>>

\* startup_event / load_ai_model, lines 69-96: the model file exists or not
AStartup ==
    /\ a_pc = "boot"
    /\ a_model' \in {"none", "loaded"}
    /\ a_pc' = "idle"
    /\ UNCHANGED <<pushChecked, gvars, pvars, fvars, svars, a_req, a_board, a_legal, a_i,
                   a_baseline, a_results, a_resp, a_calls, a_outs>>

\* POST /predict, lines 101-116
APredict ==
    /\ a_pc = "idle"
    /\ \E fen \in RequestFens, elo \in RequestElos, out \in PredictOutcomes :
          LET v == validate_request(a_model, fen, elo) IN
          /\ v.ok \/ out = NoOutcome
          /\ a_req' = [endpoint |-> "predict", fen |-> fen, elo |-> elo]
          /\ a_board' = v.board
          /\ IF ~v.ok
             THEN /\ a_resp' = Failure(v.status, v.detail)
                  /\ UNCHANGED <<a_calls, a_outs>>
             ELSE /\ a_calls' = Append(a_calls, PredictCall(BoardFen(v.board), elo))
                  /\ a_outs' = Append(a_outs, out)
                  /\ a_resp' =
                        IF ~out.ok THEN Failure(500, "Prediction failed")
                        ELSE [NoResp EXCEPT !.status = 200,
                                            !.side_to_move = SideName(BoardTurn(v.board)),
                                            !.probability = out.val,
                                            !.is_risky = out.val > 50]
    /\ a_pc' = "done"
    /\ UNCHANGED <<pushChecked, gvars, pvars, fvars, svars, a_model, a_legal, a_i,
                   a_baseline, a_results>>

\* POST /predict_moves, lines 119-132: validation, the legal moves and the
\* baseline
APredictMoves ==
    /\ a_pc = "idle"
    /\ \E fen \in RequestFens, elo \in RequestElos, out \in PredictOutcomes :
          LET v     == validate_request(a_model, fen, elo)
              legal == LegalMoves(v.board)
              flip  == flip_fen_turn(BoardFen(v.board))
          IN
          /\ (v.ok /\ ~HasNoMoves(legal) /\ flip.ok) \/ out = NoOutcome
          /\ a_req' = [endpoint |-> "predict_moves", fen |-> fen, elo |-> elo]
          /\ a_board' = v.board
          /\ a_i' = 0
          /\ a_results' = <<>>
          /\ IF ~v.ok
             THEN /\ a_resp' = Failure(v.status, v.detail)
                  /\ a_pc' = "done"
                  /\ UNCHANGED <<a_legal, a_baseline, a_calls, a_outs>>
             ELSE IF HasNoMoves(legal)
             THEN /\ a_resp' = Failure(400, "No legal moves for this position.")
                  /\ a_legal' = legal
                  /\ a_pc' = "done"
                  /\ UNCHANGED <<a_baseline, a_calls, a_outs>>
             ELSE IF ~flip.ok
             THEN /\ a_resp' = Failure(500, "Baseline prediction failed")
                  /\ a_legal' = legal
                  /\ a_pc' = "done"
                  /\ UNCHANGED <<a_baseline, a_calls, a_outs>>
             ELSE /\ a_legal' = legal
                  /\ a_calls' = Append(a_calls, PredictCall(flip.val, elo))
                  /\ a_outs' = Append(a_outs, out)
                  /\ IF ~out.ok
                     THEN /\ a_resp' = Failure(500, "Baseline prediction failed")
                          /\ a_pc' = "done"
                          /\ UNCHANGED a_baseline
                     ELSE /\ a_baseline' = out.val
                          /\ a_pc' = "loop"
                          /\ UNCHANGED a_resp
    /\ UNCHANGED <<pushChecked, gvars, pvars, fvars, svars, a_model>>

\* lines 133-137: the next legal move is pushed and predict_probability is
\* called on the board's position
ALoopCall ==
    /\ a_pc = "loop"
    /\ a_i < Len(a_legal)
    /\ a_board' = BoardPush(a_board, a_legal[a_i + 1])
    /\ a_calls' = Append(a_calls, PredictCall(BoardFen(a_board'), a_req.elo))
    /\ a_pc' = "calling"
    /\ UNCHANGED <<pushChecked, gvars, pvars, fvars, svars, a_model, a_req, a_legal, a_i,
                   a_baseline, a_results, a_resp, a_outs>>

\* lines 137-151: the call returns, or raises; on return the move is popped
\* and the entry is appended
ALoopReturn ==
    /\ a_pc = "calling"
    /\ \E out \in PredictOutcomes :
          /\ a_outs' = Append(a_outs, out)
          /\ IF ~out.ok
             THEN /\ a_resp' = Failure(500, "Prediction failed")
                  /\ a_pc' = "done"
                  /\ UNCHANGED <<a_board, a_i, a_results>>
             ELSE /\ a_board' = BoardPop(a_board)
                  /\ a_results' = Append(a_results,
                        [uci |-> a_legal[a_i + 1],
                         predicted_for |-> "opponent_to_move",
                         side_to_move_after |-> SideName(BoardTurn(a_board')),
                         opponent_error_probability |-> out.val,
                         opponent_error_delta |-> Delta(out.val, a_baseline)])
                  /\ a_i' = a_i + 1
                  /\ a_pc' = "loop"
                  /\ UNCHANGED a_resp
    /\ UNCHANGED <<pushChecked, gvars, pvars, fvars, svars, a_model, a_req, a_legal,
                   a_baseline, a_calls>>

\* lines 153-160
AReturn ==
    /\ a_pc = "loop"
    /\ a_i = Len(a_legal)
    /\ a_resp' = [NoResp EXCEPT !.status = 200,
                                !.side_to_move = SideName(BoardTurn(a_board)),
                                !.opponent_baseline_probability = a_baseline,
                                !.moves = a_results]
    /\ a_pc' = "done"
    /\ UNCHANGED <<pushChecked, gvars, pvars, fvars, svars, a_model, a_req, a_board,
                   a_legal, a_i, a_baseline, a_results, a_calls, a_outs>>

ANext == AStartup \/ APredict \/ APredictMoves \/ ALoopCall \/ ALoopReturn \/ AReturn

SpecApi == AInit /\ [][ANext]_vars

\* ------------------------------------------------- claims about the API

\* the request has been answered
Answered == a_pc = "done"

\* predict_moves answered with a success response
MovesReturned ==
    /\ Answered
    /\ a_req.endpoint = "predict_moves"
    /\ a_resp.status = 200

\* the position the request names: the number of its legal moves and its side
ReqRoot == DigitVal(a_req.fen[2])

ReqSide == IF Len(a_req.fen) >= 4 THEN a_req.fen[4] ELSE "w"

ReqTail == <<" ", "-", " ", "-", " ", "0", " ", "1">>

\* the request's position after its i-th legal move, as a position string
ReqChildFen(i) ==
    <<"p", DigitChar(ReqRoot), DigitChar(i), " ", OtherSide(ReqSide)>> \o ReqTail

\* the request's position with the other side to move
ReqToggledFen == <<"p", DigitChar(ReqRoot), " ", OtherSide(ReqSide)>> \o ReqTail

\* C11: a successful predict_moves response holds exactly one entry per legal
\* move of the requested position, in order of the moves; the baseline is the
\* evaluator's output on the requested position with only the side to move
\* toggled; each entry's probability is the evaluator's output on the position
\* after its move and its delta is that probability minus the baseline.
C11_OneEntryPerMoveWithDelta ==
    MovesReturned =>
        /\ ReqRoot >= 1
        /\ Len(a_resp.moves) = ReqRoot
        /\ Len(a_calls) = ReqRoot + 1
        /\ Len(a_outs) = ReqRoot + 1
        /\ a_calls[1].fen = ReqToggledFen
        /\ a_resp.opponent_baseline_probability = a_outs[1].val
        /\ \A i \in 1..ReqRoot :
              /\ a_resp.moves[i].uci = i
              /\ a_calls[i + 1].fen = ReqChildFen(i)
              /\ a_resp.moves[i].opponent_error_probability = a_outs[i + 1].val
              /\ a_resp.moves[i].opponent_error_delta =
                    a_outs[i + 1].val - a_outs[1].val

\* a position with one legal move was answered with one entry whose
\* probability differs from the baseline
C11_Witness ==
    /\ MovesReturned
    /\ ReqRoot = 1
    /\ Len(a_resp.moves) = 1
    /\ a_resp.moves[1].opponent_error_delta = 50

\* C12: the move list of a successful predict_moves response is in descending
\* order of opponent_error_probability, entries of equal probability keeping
\* the order of the legal moves.
C12_SortedDescending ==
    MovesReturned =>
        \A i, j \in 1..Len(a_resp.moves) :
            i < j =>
                \/ a_resp.moves[i].opponent_error_probability >
                       a_resp.moves[j].opponent_error_probability
                \/ /\ a_resp.moves[i].opponent_error_probability =
                          a_resp.moves[j].opponent_error_probability
                   /\ a_resp.moves[i].uci < a_resp.moves[j].uci

\* the position strings that parse to a position without legal moves
ZeroMoveFens ==
    {<<"p", "0">>} \cup {<<"p", "0", " ", t>> \o ReqTail : t \in {"w", "b"}}

\* the request passes the checks of model and rating
ModelAndEloOk == a_model = "loaded" /\ a_req.elo \in 1..EloMax

ReqUnavailable == a_model = "none"

ReqMalformed == ModelAndEloOk /\ a_req.fen \notin ValidFens

ReqZeroMoves == ModelAndEloOk /\ a_req.fen \in ZeroMoveFens

RespUnavailable == a_resp.status = 503

RespMalformed ==
    a_resp.status = 400 /\ a_resp.detail \in {"FEN is required.", "Invalid FEN"}

RespZeroMoves ==
    a_resp.status = 400 /\ a_resp.detail = "No legal moves for this position."

\* C13: predict_moves on a position without legal moves is answered with an
\* error, not with a success response, and without a call of the evaluator;
\* and an unavailable model, a malformed position and a position without
\* legal moves are answered with three different errors, each of which is
\* given for its own failure only.
C13_ZeroMovesIsDistinctError ==
    (Answered /\ a_req.endpoint = "predict_moves") =>
        /\ ReqZeroMoves => (a_resp.status # 200 /\ a_calls = <<>> /\ a_outs = <<>>)
        /\ ReqUnavailable <=> RespUnavailable
        /\ ReqMalformed <=> RespMalformed
        /\ ReqZeroMoves <=> RespZeroMoves
        /\ ~(RespUnavailable /\ RespMalformed)
        /\ ~(RespUnavailable /\ RespZeroMoves)
        /\ ~(RespMalformed /\ RespZeroMoves)

\* predict_moves was asked about a position without legal moves
C13_Witness ==
    /\ Answered
    /\ a_req.endpoint = "predict_moves"
    /\ ReqZeroMoves
    /\ a_req.fen = <<"p", "0", " ", "b">> \o ReqTail
    /\ RespZeroMoves

\* C14: on both endpoints a request with a rating outside 1..3000, with an
\* empty or unparsable position string, or arriving while no model is loaded
\* is rejected with the error of validate_request and no call of the
\* evaluator; every call of the evaluator belongs to a request with a loaded
\* model, a rating in 1..3000 and a parsable position.
C14_RejectedBeforeEvaluator ==
    /\ (a_calls # <<>> \/ a_outs # <<>>) =>
          /\ a_model = "loaded"
          /\ a_req.elo >= 1
          /\ a_req.elo <= 3000
          /\ a_req.fen \in ValidFens
    /\ (Answered /\ ~(a_model = "loaded" /\ a_req.elo >= 1 /\ a_req.elo <= 3000
                      /\ a_req.fen \in ValidFens)) =>
          /\ a_calls = <<>>
          /\ a_outs = <<>>
          /\ a_resp.status \in {400, 503}
          /\ a_resp.detail \in {"Model not loaded. Train it or add models/human_error_model_elo.keras.", "Elo must be between 1 and 3000.",
                                "FEN is required.", "Invalid FEN"}
          /\ a_resp.moves = <<>>

\* /predict was asked with rating 0 about a parsable position, model loaded
C14_Witness ==
    /\ Answered
    /\ a_req.endpoint = "predict"
    /\ a_model = "loaded"
    /\ a_req.elo = 0
    /\ a_req.fen \in ValidFens
    /\ a_resp.status = 400

\* C16: in the loop of predict_moves the board is pushed and popped in
\* alternation: during every call of the evaluator in the loop the board is
\* the requested position with exactly the one move being scored applied,
\* between two moves nothing is applied, and when the request succeeds the
\* board is the requested position.
C16_PushPopAlternate ==
    a_req.endpoint = "predict_moves" =>
        /\ a_pc = "calling" =>
              /\ a_board = [root |-> ReqRoot, turn0 |-> ReqSide,
                            stack |-> <<a_legal[a_i + 1]>>]
              /\ Len(a_calls) = a_i + 2
              /\ a_calls[a_i + 2].fen = ReqChildFen(a_i + 1)
        /\ a_pc = "loop" =>
              a_board = [root |-> ReqRoot, turn0 |-> ReqSide, stack |-> <<>>]
        /\ MovesReturned =>
              a_board = [root |-> ReqRoot, turn0 |-> ReqSide, stack |-> <<>>]

\* the evaluator is being called for the second legal move
C16_Witness ==
    /\ a_req.endpoint = "predict_moves"
    /\ a_pc = "calling"
    /\ a_i = 1
    /\ a_board.stack = <<2>>

\* C18: in every entry of a successful predict_moves response,
\* side_to_move_after is the side to move after the entry's move, the
\* opposite colour of the response's side_to_move.
C18_SideAfterIsOpposite ==
    MovesReturned =>
        \A i \in 1..Len(a_resp.moves) :
            /\ a_resp.moves[i].side_to_move_after = SideName(OtherSide(ReqSide))
            /\ a_resp.moves[i].side_to_move_after # a_resp.side_to_move

\* ------------------------------------------------------- scoring one ply

\* the first ply of game 1 on a worker with an open engine; the engine's
\* reports are drawn here and read by the step
SInit ==
    /\ pushChecked = FALSE
    /\ g_engine = NoEngine
    /\ g_game = GameOf(1, 0, "?", "?")
    /\ g_pc = "returned"
    /\ g_board = <<>>
    /\ g_ply = 0
    /\ g_data = <<>>
    /\ g_last = NoPly
    /\ PoolIdle
    /\ FlipIdle
    /\ ApiIdle
    /\ s_pc = "start"
    /\ s_move = MoveOf(1, 1)
    /\ s_an \in RawAnalyseReplies(MoveOf(1, 1))
    /\ s_fb \in RawEvalReplies
    /\ s_out = NoOut

\* process_single_game, lines 78-118, on the reports drawn
SScorePly ==
    /\ s_pc = "start"
    /\ s_out' = ScorePly(1, <<>>, s_move, 1500, ReadInfo(s_an), ReadEval(s_fb),
                         pushChecked, 1, 1)
    /\ s_pc' = "scored"
    /\ UNCHANGED <<pushChecked, gvars, pvars, fvars, avars, s_move, s_an, s_fb>>

SNext == SScorePly

SpecScores == SInit /\ [][SNext]_vars

\* the ply has been scored and a record emitted
Emitted == s_pc = "scored" /\ s_out.recs # <<>>

\* the engine's scores the record's two scores are read from
BestSource == s_an.info[1].score

HumanMatched == Matches(s_an.info, s_move) # {}

HumanSource ==
    IF HumanMatched THEN s_an.info[FirstMatch(s_an.info, s_move)].score
    ELSE s_fb.score

InMateRange(x) == x \in (0 - 10000)..10000

\* C17 as stated: every best_score and human_score of an emitted record is an
\* integer in [-10000, 10000] and every score_diff one in [-20000, 20000].
C17_ScoresInRange ==
    Emitted =>
        \A i \in 1..Len(s_out.recs) :
            /\ InMateRange(s_out.recs[i].best_score)
            /\ InMateRange(s_out.recs[i].human_score)
            /\ s_out.recs[i].score_diff \in (0 - 20000)..20000

\* C17: every best_score and human_score of an emitted record is an integer,
\* never a missing value: a mate outcome is mapped into [-10000, 10000] via
\* the mate score 10000 (positive when the side to move mates), the failed
\* fallback gives the sentinel -9999, and a centipawn score is stored as the
\* engine reports it (negated on the fallback path), unclamped; score_diff is
\* the integer best_score - human_score and lies in [-20000, 20000] whenever
\* the centipawn scores read lie in [-10000, 10000].
C17_ScoresAreIntegers ==
    Emitted =>
        /\ Len(s_out.recs) = 1
        /\ LET r == s_out.recs[1] IN
           /\ r.best_score \in Int
           /\ r.human_score \in Int
           /\ r.score_diff = r.best_score - r.human_score
           /\ BestSource.kind = "mate" =>
                 /\ InMateRange(r.best_score)
                 /\ (r.best_score > 0) <=> (BestSource.v > 0)
                 /\ r.best_score + BestSource.v \in {10000, 0 - 10000}
           /\ BestSource.kind = "cp" => r.best_score = BestSource.v
           /\ (HumanMatched /\ HumanSource.kind = "mate") =>
                 /\ InMateRange(r.human_score)
                 /\ (r.human_score > 0) <=> (HumanSource.v > 0)
           /\ (HumanMatched /\ HumanSource.kind = "cp") =>
                 r.human_score = HumanSource.v
           /\ (~HumanMatched /\ s_fb.kind = "noscore") => r.human_score = 0 - 9999
           /\ (~HumanMatched /\ s_fb.kind = "score" /\ HumanSource.kind = "mate") =>
                 /\ InMateRange(r.human_score)
                 /\ (r.human_score < 0) <=> (HumanSource.v > 0)
           /\ (~HumanMatched /\ s_fb.kind = "score" /\ HumanSource.kind = "cp") =>
                 r.human_score = 0 - HumanSource.v
           /\ ( /\ BestSource.kind = "cp" => InMateRange(BestSource.v)
                /\ (HumanMatched \/ s_fb.kind = "score") =>
                      (HumanSource.kind = "cp" => InMateRange(HumanSource.v)) ) =>
                 /\ InMateRange(r.best_score)
                 /\ InMateRange(r.human_score)
                 /\ r.score_diff \in (0 - 20000)..20000

\* the best line is "mated in 1" and the played move, in no line, is scored
\* by the fallback at 15000 centipawns for the opponent
C17_Witness ==
    /\ Emitted
    /\ BestSource = [kind |-> "mate", v |-> -1]
    /\ ~HumanMatched
    /\ s_fb = [kind |-> "score", score |-> [kind |-> "cp", v |-> 15000]]
    /\ s_out.recs[1].best_score = 0 - 9999
    /\ s_out.recs[1].human_score = 0 - 15000
    /\ s_out.recs[1].score_diff = 5001

====
